---- MODULE Spec2Model ----
(***************************************************************************)
(* Model of middleware.go (package mux): the router/route middleware       *)
(* chains (Use, UseWithLogging), the logging adapter                       *)
(* (MiddlewareFuncWithLogging.Middleware) and the CORS method middleware   *)
(* (CORSMethodMiddleware, getAllMethodsForRoute).                          *)
(*                                                                         *)
(* Spec      : route registration, installation of the CORS middleware and *)
(*             requests served by the CORS handler, one step per statement.*)
(* ChainSpec : Use / UseWithLogging on the Router and on a Route, and a    *)
(*             request executed through the resulting chain.               *)
(***************************************************************************)
EXTENDS Integers, Sequences, FiniteSets, TLC

\* ---------------------------------------------------------------- bounds
MaxRoutes == 2
MaxChain == 3

\* ------------------------------------------------------------- vocabulary
MethodOptions == "OPTIONS"
Paths == {"/x", "/y"}
ReqMethods == {"GET", "OPTIONS"}
MethodLists == {<<"GET">>, <<"OPTIONS", "POST">>}
Threads == {"t1", "t2"}
Containers == {"router", "route"}
Names == {"auth", "gzip"}

\* The MiddlewareFunc values handed to Use/UseWithLogging, by what the handler
\* they produce does: "work" is work of its own, "next" a call of next.ServeHTTP.
Fns == {"pre", "short", "twice"}
Body(fn) ==
    CASE fn = "pre" -> <<"work", "next">>
      [] fn = "short" -> <<"work">>
      [] fn = "twice" -> <<"next", "next">>
      [] OTHER -> <<"next">>

\* A route as far as this file observes it: what Match decides on and what
\* GetMethods reports (methods, or an error when methodsErr).
RouteSet == [path : Paths, methods : MethodLists, methodsErr : BOOLEAN]
Requests == [path : Paths, method : ReqMethods]

NoRequest == [path |-> "", method |-> ""]
NoHeader == [set |-> FALSE, val |-> ""]

Range(s) == {s[k] : k \in 1..Len(s)}

VARIABLES
    routes,            \* r.routes of the Router, in registration order
    middlewares,       \* middlewares["router"], middlewares["route"]: the chains
    corsInstalled,     \* the Router was captured by CORSMethodMiddleware(r)
    routesAtConstruct, \* history: Len(r.routes) when CORSMethodMiddleware(r) was called
    pc,                \* per request context: position in the CORS handler
    req,               \* per request context: the request
    startLen,          \* history: Len(r.routes) when the request entered the handler
    idx,               \* per request context: index of the range loop over r.routes
    allMethods,        \* per request context: local allMethods of getAllMethodsForRoute
    err,               \* per request context: err returned by getAllMethodsForRoute
    header,            \* per request context: Access-Control-Allow-Methods of w.Header()
    nextCalls,         \* per request context: number of next.ServeHTTP calls
    seenByNext,        \* per request context: the header as next.ServeHTTP found it
    passed,            \* history: every interceptor handed to Use/UseWithLogging, per container
    stack,             \* call stack of the request running through the chain
    events,            \* observable trace of that request
    cpc                \* position of the chain request: "idle", "run", "done"

chainVars == <<passed, stack, events, cpc>>
vars == <<routes, middlewares, corsInstalled, routesAtConstruct, pc, req, startLen,
          idx, allMethods, err, header, nextCalls, seenByNext, passed, stack,
          events, cpc>>

\* ------------------------------------------------------- Matching Engine
\* Route.Match(req, &match): the boolean result and match.MatchErr.
Match(route, rq) ==
    IF route.path # rq.path
    THEN [matched |-> FALSE, MatchErr |-> "ErrNotFound"]
    ELSE IF rq.method \notin Range(route.methods)
    THEN [matched |-> FALSE, MatchErr |-> "ErrMethodMismatch"]
    ELSE [matched |-> TRUE, MatchErr |-> "nil"]

\* Route.GetMethods(): (methods, err).
GetMethods(route) ==
    IF route.methodsErr
    THEN [methods |-> <<>>, err |-> TRUE]
    ELSE [methods |-> route.methods, err |-> FALSE]

\* ------------------------------------------------------- pure helpers
\* strings.Join(elems, sep)
RECURSIVE Join(_, _)
Join(elems, sep) ==
    IF Len(elems) = 0 THEN ""
    ELSE IF Len(elems) = 1 THEN elems[1]
    ELSE elems[1] \o sep \o Join(Tail(elems), sep)

\* the condition of line 113
IncludedOnlyMatched(route, rq) == Match(route, rq).matched
IncludedAnyMismatch(route, rq) == TRUE
Included(route, rq) ==
    LET m == Match(route, rq)
    IN  m.matched \/ m.MatchErr = "ErrMethodMismatch"

\* lines 93-99: the header after the loop over allMethods, starting from h
RECURSIVE SetLoop(_, _, _)
SetLoop(h, all, k) ==
    IF k > Len(all) THEN h
    ELSE IF all[k] = MethodOptions
    THEN SetLoop([set |-> TRUE, val |-> Join(all, ",")], all, k + 1)
    ELSE SetLoop(h, all, k + 1)

HeaderIfAnyMethod(h, e, all) ==
    IF ~e /\ Len(all) > 0 THEN [set |-> TRUE, val |-> Join(all, ",")] ELSE h
HeaderAfterLoop(h, e, all) ==
    IF ~e THEN SetLoop(h, all, 1) ELSE h

\* r.routes as the closure of line 89 reaches it: through the captured *Router
RouterRoutesFrozen == SubSeq(routes, 1, routesAtConstruct)
RouterRoutes == routes

\* line 119: allMethods = append(allMethods, methods...) in the context of t
appendShared(am, t, methods) == [u \in Threads |-> am[u] \o methods]
appendMethods(am, t, methods) == [am EXCEPT ![t] = am[t] \o methods]

\* ------------------------------------------------------- Init
Init ==
    /\ routes = <<>>
    /\ middlewares = [c \in Containers |-> <<>>]
    /\ corsInstalled = FALSE
    /\ routesAtConstruct = 0
    /\ pc = [t \in Threads |-> "idle"]
    /\ req = [t \in Threads |-> NoRequest]
    /\ startLen = [t \in Threads |-> 0]
    /\ idx = [t \in Threads |-> 0]
    /\ allMethods = [t \in Threads |-> <<>>]
    /\ err = [t \in Threads |-> FALSE]
    /\ header = [t \in Threads |-> NoHeader]
    /\ nextCalls = [t \in Threads |-> 0]
    /\ seenByNext = [t \in Threads |-> NoHeader]
    /\ passed = [c \in Containers |-> <<>>]
    /\ stack = <<>>
    /\ events = <<>>
    /\ cpc = "idle"

NoneInFlight == \A t \in Threads : pc[t] = "idle"

\* ------------------------------------------------------- setup actions
\* Route registration on the Router (append to r.routes); done while no
\* request is being served.
AddRoute(route) ==
    /\ NoneInFlight
    /\ Len(routes) < MaxRoutes
    /\ routes' = Append(routes, route)
    /\ UNCHANGED <<middlewares, corsInstalled, routesAtConstruct, pc, req, startLen,
                   idx, allMethods, err, header, nextCalls, seenByNext>>
    /\ UNCHANGED chainVars

\* lines 41-43 / 63-65: for _, fn := range mwf { append(r.middlewares, fn) }
RECURSIVE AppendEach(_, _)
AppendEach(ms, mwf) ==
    IF mwf = <<>> THEN ms
    ELSE AppendEach(Append(ms, Head(mwf)), Tail(mwf))

UseLoopPrepending(ms, mwf) == mwf \o ms
UseLoop(ms, mwf) == AppendEach(ms, mwf)

\* lines 55-57 / 81-83: r.middlewares = append(r.middlewares, mw)
useInterface(ms, mw) == Append(ms, mw)

\* a MiddlewareFunc as a chain entry, and MiddlewareFuncWithLogging{Handler, Name}
Plain(fn) == [fn |-> fn, logging |-> FALSE, name |-> ""]
WithLogging(name, fn) == [fn |-> fn, logging |-> TRUE, name |-> name]

\* r.Use(CORSMethodMiddleware(r)): the middleware captures r and joins r's chain.
CORSEntry == Plain("cors")

InstallCORS ==
    /\ NoneInFlight
    /\ ~corsInstalled
    /\ corsInstalled' = TRUE
    /\ routesAtConstruct' = Len(routes)
    /\ middlewares' = [middlewares EXCEPT !["router"] = UseLoop(@, <<CORSEntry>>)]
    /\ passed' = [passed EXCEPT !["router"] = @ \o <<CORSEntry>>]
    /\ UNCHANGED <<routes, pc, req, startLen, idx, allMethods, err, header,
                   nextCalls, seenByNext>>
    /\ UNCHANGED <<stack, events, cpc>>

\* ------------------------------------------------------- CORS handler
\* line 91-92: the handler is entered with a fresh ResponseWriter;
\* getAllMethodsForRoute starts with var allMethods []string and the range loop.
Serve(t, rq) ==
    /\ corsInstalled
    /\ pc[t] = "idle"
    /\ pc' = [pc EXCEPT ![t] = "scan"]
    /\ req' = [req EXCEPT ![t] = rq]
    /\ startLen' = [startLen EXCEPT ![t] = Len(routes)]
    /\ idx' = [idx EXCEPT ![t] = 1]
    /\ allMethods' = [allMethods EXCEPT ![t] = <<>>]
    /\ err' = [err EXCEPT ![t] = FALSE]
    /\ header' = [header EXCEPT ![t] = NoHeader]
    /\ nextCalls' = [nextCalls EXCEPT ![t] = 0]
    /\ seenByNext' = [seenByNext EXCEPT ![t] = NoHeader]
    /\ UNCHANGED <<routes, middlewares, corsInstalled, routesAtConstruct>>
    /\ UNCHANGED chainVars

\* lines 111-120: one iteration of the loop over r.routes
ScanStepIgnoringErr(t) ==
    /\ pc[t] = "scan"
    /\ idx[t] <= Len(RouterRoutes)
    /\ LET route == RouterRoutes[idx[t]]
           got == GetMethods(route)
       IN  /\ allMethods' = IF Included(route, req[t])
                            THEN appendMethods(allMethods, t, got.methods)
                            ELSE allMethods
           /\ idx' = [idx EXCEPT ![t] = @ + 1]
           /\ UNCHANGED <<pc, err>>
    /\ UNCHANGED <<routes, middlewares, corsInstalled, routesAtConstruct, req,
                   startLen, header, nextCalls, seenByNext>>
    /\ UNCHANGED chainVars

ScanStep(t) ==
    /\ pc[t] = "scan"
    /\ idx[t] <= Len(RouterRoutes)
    /\ LET route == RouterRoutes[idx[t]]
           got == GetMethods(route)
       IN  IF Included(route, req[t])
           THEN IF got.err
                THEN \* return nil, err
                     /\ allMethods' = [allMethods EXCEPT ![t] = <<>>]
                     /\ err' = [err EXCEPT ![t] = TRUE]
                     /\ pc' = [pc EXCEPT ![t] = "decide"]
                     /\ UNCHANGED idx
                ELSE /\ allMethods' = appendMethods(allMethods, t, got.methods)
                     /\ idx' = [idx EXCEPT ![t] = @ + 1]
                     /\ UNCHANGED <<pc, err>>
           ELSE /\ idx' = [idx EXCEPT ![t] = @ + 1]
                /\ UNCHANGED <<pc, err, allMethods>>
    /\ UNCHANGED <<routes, middlewares, corsInstalled, routesAtConstruct, req,
                   startLen, header, nextCalls, seenByNext>>
    /\ UNCHANGED chainVars

\* line 123: return allMethods, nil
ScanReturn(t) ==
    /\ pc[t] = "scan"
    /\ idx[t] > Len(RouterRoutes)
    /\ pc' = [pc EXCEPT ![t] = "decide"]
    /\ UNCHANGED <<routes, middlewares, corsInstalled, routesAtConstruct, req,
                   startLen, idx, allMethods, err, header, nextCalls, seenByNext>>
    /\ UNCHANGED chainVars

\* lines 93-99
Decide(t) ==
    /\ pc[t] = "decide"
    /\ header' = [header EXCEPT ![t] = HeaderAfterLoop(@, err[t], allMethods[t])]
    /\ pc' = [pc EXCEPT ![t] = "next"]
    /\ UNCHANGED <<routes, middlewares, corsInstalled, routesAtConstruct, req,
                   startLen, idx, allMethods, err, nextCalls, seenByNext>>
    /\ UNCHANGED chainVars

\* line 101: next.ServeHTTP(w, req)
CallNextOnSuccessOnly(t) ==
    /\ pc[t] = "next"
    /\ pc' = [pc EXCEPT ![t] = "done"]
    /\ nextCalls' = [nextCalls EXCEPT ![t] = IF err[t] THEN @ ELSE @ + 1]
    /\ seenByNext' = [seenByNext EXCEPT ![t] = IF err[t] THEN @ ELSE header[t]]
    /\ UNCHANGED <<routes, middlewares, corsInstalled, routesAtConstruct, req,
                   startLen, idx, allMethods, err, header>>
    /\ UNCHANGED chainVars

CallNext(t) ==
    /\ pc[t] = "next"
    /\ pc' = [pc EXCEPT ![t] = "done"]
    /\ nextCalls' = [nextCalls EXCEPT ![t] = @ + 1]
    /\ seenByNext' = [seenByNext EXCEPT ![t] = header[t]]
    /\ UNCHANGED <<routes, middlewares, corsInstalled, routesAtConstruct, req,
                   startLen, idx, allMethods, err, header>>
    /\ UNCHANGED chainVars

\* the handler returns; the request context ends
Return(t) ==
    /\ pc[t] = "done"
    /\ pc' = [pc EXCEPT ![t] = "idle"]
    /\ req' = [req EXCEPT ![t] = NoRequest]
    /\ startLen' = [startLen EXCEPT ![t] = 0]
    /\ idx' = [idx EXCEPT ![t] = 0]
    /\ allMethods' = [allMethods EXCEPT ![t] = <<>>]
    /\ err' = [err EXCEPT ![t] = FALSE]
    /\ header' = [header EXCEPT ![t] = NoHeader]
    /\ nextCalls' = [nextCalls EXCEPT ![t] = 0]
    /\ seenByNext' = [seenByNext EXCEPT ![t] = NoHeader]
    /\ UNCHANGED <<routes, middlewares, corsInstalled, routesAtConstruct>>
    /\ UNCHANGED chainVars

Next ==
    \/ \E route \in RouteSet : AddRoute(route)
    \/ InstallCORS
    \/ \E t \in Threads, rq \in Requests : Serve(t, rq)
    \/ \E t \in Threads : ScanStep(t)
    \/ \E t \in Threads : ScanReturn(t)
    \/ \E t \in Threads : Decide(t)
    \/ \E t \in Threads : CallNext(t)
    \/ \E t \in Threads : Return(t)

Spec == Init /\ [][Next]_vars

\* =================================================================
\* Middleware chains and the logging adapter
\* =================================================================
requestVars == <<routes, corsInstalled, routesAtConstruct, pc, req, startLen, idx,
                 allMethods, err, header, nextCalls, seenByNext>>

Registered == Len(middlewares["router"]) + Len(middlewares["route"])

\* func (r *Router) Use(mwf ...MiddlewareFunc) and func (r *Route) Use(...)
Use(c, mwf) ==
    /\ cpc = "idle"
    /\ Registered + Len(mwf) <= MaxChain
    /\ middlewares' = [middlewares EXCEPT ![c] = UseLoop(@, mwf)]
    /\ passed' = [passed EXCEPT ![c] = @ \o mwf]
    /\ UNCHANGED <<stack, events, cpc>>
    /\ UNCHANGED requestVars

RouterUse(mwf) == Use("router", mwf)
RouteUse(mwf) == Use("route", mwf)

\* func (r *Router) UseWithLogging(name, mw) and func (r *Route) UseWithLogging(...)
UseWithLogging(c, name, mw) ==
    /\ cpc = "idle"
    /\ Registered + 1 <= MaxChain
    /\ middlewares' = [middlewares EXCEPT ![c] = useInterface(@, WithLogging(name, mw.fn))]
    /\ passed' = [passed EXCEPT ![c] = Append(@, WithLogging(name, mw.fn))]
    /\ UNCHANGED <<stack, events, cpc>>
    /\ UNCHANGED requestVars

RouterUseWithLogging(name, mw) == UseWithLogging("router", name, mw)
RouteUseWithLogging(name, mw) == UseWithLogging("route", name, mw)

\* The chain a request runs through: the Router's interceptors, then the
\* Route's, then the route handler (position Len(Chain) + 1).
Chain == middlewares["router"] \o middlewares["route"]

HandlerFrame(i) == [at |-> i, ip |-> 1, wrap |-> FALSE]
WrapperFrame(i) == [at |-> i, ip |-> 1, wrap |-> TRUE]

\* What `next` is for the handler that entry i's Middleware(handler) produces:
\* MiddlewareFunc.Middleware (lines 27-29) passes handler itself,
\* MiddlewareFuncWithLogging.Middleware (lines 32-37) passes the logging HandlerFunc.
NextOf(i) ==
    IF Chain[i].logging THEN WrapperFrame(i) ELSE HandlerFrame(i + 1)

\* lines 33-36: the HandlerFunc handed to mw.Handler
WrapperBodyWithoutCall == <<"log">>
WrapperBody == <<"log", "call">>

Top == stack[Len(stack)]
Pop(st) == SubSeq(st, 1, Len(st) - 1)
Advance(st) == [st EXCEPT ![Len(st)].ip = @ + 1]
Enter(i) == [kind |-> "enter", at |-> i, name |-> ""]

\* the server hands a request to the head of the chain
ChainServe ==
    /\ cpc = "idle"
    /\ cpc' = "run"
    /\ stack' = <<HandlerFrame(1)>>
    /\ events' = <<Enter(1)>>
    /\ UNCHANGED <<middlewares, passed>>
    /\ UNCHANGED requestVars

InHandler == cpc = "run" /\ stack # <<>> /\ ~Top.wrap /\ Top.at <= Len(Chain)
OpAt == Body(Chain[Top.at].fn)[Top.ip]

\* the interceptor's handler does work of its own
Work ==
    /\ InHandler
    /\ Top.ip <= Len(Body(Chain[Top.at].fn))
    /\ OpAt = "work"
    /\ events' = Append(events, [kind |-> "work", at |-> Top.at, name |-> ""])
    /\ stack' = Advance(stack)
    /\ UNCHANGED <<middlewares, passed, cpc>>
    /\ UNCHANGED requestVars

\* the interceptor's handler calls next.ServeHTTP(w, r)
InvokeNext ==
    /\ InHandler
    /\ Top.ip <= Len(Body(Chain[Top.at].fn))
    /\ OpAt = "next"
    /\ LET callee == NextOf(Top.at)
       IN  /\ stack' = Append(Advance(stack), callee)
           /\ events' = IF callee.wrap THEN events ELSE Append(events, Enter(callee.at))
    /\ UNCHANGED <<middlewares, passed, cpc>>
    /\ UNCHANGED requestVars

\* line 34: log.Printf("Executing middleware: %s", mw.Name)
WrapperLog ==
    /\ cpc = "run" /\ stack # <<>> /\ Top.wrap
    /\ Top.ip <= Len(WrapperBody)
    /\ WrapperBody[Top.ip] = "log"
    /\ events' = Append(events, [kind |-> "log", at |-> Top.at, name |-> Chain[Top.at].name])
    /\ stack' = Advance(stack)
    /\ UNCHANGED <<middlewares, passed, cpc>>
    /\ UNCHANGED requestVars

\* line 35: handler.ServeHTTP(w, r)
WrapperCall ==
    /\ cpc = "run" /\ stack # <<>> /\ Top.wrap
    /\ Top.ip <= Len(WrapperBody)
    /\ WrapperBody[Top.ip] = "call"
    /\ stack' = Append(Advance(stack), HandlerFrame(Top.at + 1))
    /\ events' = Append(events, Enter(Top.at + 1))
    /\ UNCHANGED <<middlewares, passed, cpc>>
    /\ UNCHANGED requestVars

\* a handler (an interceptor's, the logging HandlerFunc, or the route handler) returns
FrameReturn ==
    /\ cpc = "run" /\ stack # <<>>
    /\ IF Top.wrap THEN Top.ip > Len(WrapperBody)
       ELSE IF Top.at > Len(Chain) THEN TRUE
       ELSE Top.ip > Len(Body(Chain[Top.at].fn))
    /\ stack' = Pop(stack)
    /\ cpc' = IF Len(stack) = 1 THEN "done" ELSE "run"
    /\ UNCHANGED <<middlewares, passed, events>>
    /\ UNCHANGED requestVars

\* the request is over
ChainDone ==
    /\ cpc = "done"
    /\ cpc' = "idle"
    /\ events' = <<>>
    /\ UNCHANGED <<middlewares, passed, stack>>
    /\ UNCHANGED requestVars

MwfArgs == {<<Plain(f)>> : f \in Fns} \cup {<<Plain(f), Plain(g)>> : f, g \in Fns}

ChainNext ==
    \/ \E mwf \in MwfArgs : RouterUse(mwf)
    \/ \E mwf \in MwfArgs : RouteUse(mwf)
    \/ \E n \in Names, f \in Fns : RouterUseWithLogging(n, Plain(f))
    \/ \E n \in Names, f \in Fns : RouteUseWithLogging(n, Plain(f))
    \/ ChainServe
    \/ Work
    \/ InvokeNext
    \/ WrapperLog
    \/ WrapperCall
    \/ FrameReturn
    \/ ChainDone

ChainSpec == Init /\ [][ChainNext]_vars

\* =================================================================
\* Properties of the chains and the logging adapter (checked under ChainSpec)
\* =================================================================
IsPrefix(a, b) == Len(a) <= Len(b) /\ SubSeq(b, 1, Len(a)) = a

\* C5: after any sequence of Use and UseWithLogging calls a container's chain
\* is the concatenation of all interceptors passed to it, in call order and in
\* argument order; every call only appends, so the previous chain is a prefix
\* of the new one.
C5_ChainIsConcatOfPassed ==
    [][\A c \in Containers :
          /\ IsPrefix(middlewares[c], middlewares'[c])
          /\ middlewares'[c] = passed'[c]]_vars

C5_Witness ==
    /\ middlewares["router"] = <<Plain("pre"), Plain("short"), WithLogging("auth", "twice")>>
    /\ passed["router"] = middlewares["router"]

\* positions of the events of a given kind at chain position i
EventsAt(kind, i) == {k \in 1..Len(events) : events[k].kind = kind /\ events[k].at = i}
First(S) == CHOOSE k \in S : \A j \in S : k <= j

\* C6 (as stated): a logging adapter emits exactly one log record for each
\* run of its wrapped interceptor's handler in a request (one per request when
\* the handler runs once), and the record precedes that handler's execution,
\* whatever the interceptor does with next.
C6_Original_LogOnceBeforeHandler ==
    cpc = "done" =>
        \A i \in 1..Len(Chain) :
            (Chain[i].logging /\ EventsAt("enter", i) # {})
                => /\ Cardinality(EventsAt("log", i)) = Cardinality(EventsAt("enter", i))
                   /\ First(EventsAt("log", i)) < First(EventsAt("enter", i))

\* the trace of a request through a chain of bare interceptors
RECURSIVE BareTrace(_, _)
RECURSIVE BareOps(_, _, _)
BareTrace(ch, i) ==
    IF i > Len(ch) THEN <<Enter(i)>>
    ELSE <<Enter(i)>> \o BareOps(ch, i, Body(ch[i].fn))
BareOps(ch, i, ops) ==
    IF ops = <<>> THEN <<>>
    ELSE (IF Head(ops) = "work"
          THEN <<[kind |-> "work", at |-> i, name |-> ""]>>
          ELSE BareTrace(ch, i + 1))
         \o BareOps(ch, i, Tail(ops))

NotLog(e) == e.kind # "log"

\* C10: with log output ignored, UseWithLogging(name, m) behaves as Use(m):
\* the downstream handler runs exactly when, and as often as, m's handler
\* calls next, and the logging step never stops the request.
C10_LoggingEquivalentToBare ==
    /\ cpc = "done" => SelectSeq(events, NotLog) = BareTrace(Chain, 1)
    /\ cpc = "run" => IsPrefix(SelectSeq(events, NotLog), BareTrace(Chain, 1))
    /\ (cpc = "run" /\ stack # <<>> /\ Top.wrap) => ENABLED (WrapperLog \/ WrapperCall \/ FrameReturn)

C10_Witness ==
    /\ cpc = "done"
    /\ Len(Chain) = 3
    /\ Chain[1] = WithLogging("auth", "twice")
    /\ Chain[2] = WithLogging("gzip", "pre")
    /\ Chain[3] = WithLogging("auth", "short")
    /\ Cardinality(EventsAt("log", 1)) = 2
    /\ Cardinality(EventsAt("enter", 3)) = 2

\* =================================================================
\* Properties of the CORS method middleware (checked under Spec)
\* =================================================================

\* The aggregate as the documentation states it: the method lists of the
\* routes that matched or failed on the method alone, in registration order.
Contributes(route, rq) ==
    \/ Match(route, rq).matched
    \/ Match(route, rq).MatchErr = "ErrMethodMismatch"

RECURSIVE ConcatMethods(_, _)
ConcatMethods(rs, rq) ==
    IF rs = <<>> THEN <<>>
    ELSE (IF Contributes(Head(rs), rq) THEN Head(rs).methods ELSE <<>>)
         \o ConcatMethods(Tail(rs), rq)

\* some contributing route fails to report its methods
SomeGetMethodsFails(rs, rq) ==
    \E k \in 1..Len(rs) : Contributes(rs[k], rq) /\ rs[k].methodsErr

\* the header a request gets when served alone over the route list rs
HeaderAlone(rs, rq) ==
    IF ~SomeGetMethodsFails(rs, rq) /\ MethodOptions \in Range(ConcatMethods(rs, rq))
    THEN [set |-> TRUE, val |-> Join(ConcatMethods(rs, rq), ",")]
    ELSE NoHeader

Returned(t) == pc[t] \in {"decide", "next", "done"}

\* C1: when no GetMethods call fails, getAllMethodsForRoute returns exactly
\* the concatenation, in registration order, of the method lists of the routes
\* that matched or mismatched on the method only; a route failing on anything
\* else contributes nothing.
C1_AggregateIsConcatOfIncluded ==
    \A t \in Threads :
        (Returned(t) /\ ~SomeGetMethodsFails(routes, req[t]))
            => /\ ~err[t]
               /\ allMethods[t] = ConcatMethods(routes, req[t])

C1_Witness ==
    \E t \in Threads :
        /\ pc[t] = "done" /\ ~err[t]
        /\ Len(routes) = 2
        /\ Match(routes[1], req[t]).MatchErr = "ErrNotFound"
        /\ Match(routes[2], req[t]).MatchErr = "ErrMethodMismatch"
        /\ allMethods[t] = routes[2].methods

\* C2: the middleware sets Access-Control-Allow-Methods iff aggregation
\* succeeded and the aggregate contains OPTIONS; the value is the aggregate
\* joined by commas, in collected order, duplicates kept.
RouteX_GET == [path |-> "/x", methods |-> <<"GET">>, methodsErr |-> FALSE]
RouteX_OPTIONS_POST == [path |-> "/x", methods |-> <<"OPTIONS", "POST">>, methodsErr |-> FALSE]
RouteY_GET == [path |-> "/y", methods |-> <<"GET">>, methodsErr |-> FALSE]

C2_HeaderIffOptionsJoined ==
    \A t \in Threads :
        pc[t] \in {"next", "done"} =>
            /\ header[t].set <=>
                   (/\ ~SomeGetMethodsFails(routes, req[t])
                    /\ MethodOptions \in Range(ConcatMethods(routes, req[t])))
            /\ header[t].set => header[t].val = Join(ConcatMethods(routes, req[t]), ",")
            /\ (/\ routes = <<RouteX_GET, RouteX_OPTIONS_POST>>
                /\ req[t] = [path |-> "/x", method |-> "OPTIONS"])
                   => header[t] = [set |-> TRUE, val |-> "GET,OPTIONS,POST"]
            /\ (/\ routes = <<RouteX_OPTIONS_POST, RouteX_OPTIONS_POST>>
                /\ req[t] = [path |-> "/x", method |-> "OPTIONS"])
                   => header[t] = [set |-> TRUE, val |-> "OPTIONS,POST,OPTIONS,POST"]
            /\ (/\ routes = <<RouteY_GET>>
                /\ req[t] = [path |-> "/y", method |-> "OPTIONS"])
                   => header[t] = NoHeader

C2_Witness ==
    \E t \in Threads :
        /\ pc[t] = "done"
        /\ routes = <<RouteX_GET, RouteX_OPTIONS_POST>>
        /\ req[t] = [path |-> "/x", method |-> "OPTIONS"]
        /\ header[t].set
        /\ header[t].val = "GET,OPTIONS,POST"

\* C3: the next handler is invoked exactly once per request, whatever the
\* aggregation outcome, and only once the scan has ended (all routes visited,
\* or aborted by a GetMethods error) and the header decision is made, so that
\* next finds the header the middleware decided on.
C3_NextExactlyOnceAfterDecision ==
    \A t \in Threads :
        /\ pc[t] \in {"idle", "scan", "decide", "next"} => nextCalls[t] = 0
        /\ pc[t] = "done" =>
               /\ nextCalls[t] = 1
               /\ err[t] \/ idx[t] = Len(routes) + 1
               /\ seenByNext[t] = HeaderAlone(routes, req[t])

C3_Witness ==
    \E t, u \in Threads :
        /\ pc[t] = "done" /\ err[t] /\ nextCalls[t] = 1
        /\ pc[u] = "done" /\ ~err[u] /\ seenByNext[u].set /\ nextCalls[u] = 1

\* C4: a GetMethods failure on an included route aborts the aggregation with
\* no partial result: no header is set, even when earlier routes had already
\* contributed OPTIONS, and the request still reaches the next handler.
C4_GetMethodsErrorAborts ==
    \A t \in Threads :
        (pc[t] = "done" /\ SomeGetMethodsFails(routes, req[t]))
            => /\ err[t]
               /\ allMethods[t] = <<>>
               /\ ~header[t].set
               /\ nextCalls[t] = 1
               /\ ~seenByNext[t].set

C4_Witness ==
    \E t \in Threads :
        /\ pc[t] = "done" /\ err[t] /\ nextCalls[t] = 1 /\ ~header[t].set
        /\ Len(routes) = 2
        /\ Contributes(routes[1], req[t]) /\ ~routes[1].methodsErr
        /\ MethodOptions \in Range(routes[1].methods)
        /\ Contributes(routes[2], req[t]) /\ routes[2].methodsErr

\* C7 (as stated): if exactly one route matches the request, the header is
\* either unset or exactly that route's method list.
MatchingRoutes(rs, rq) == {k \in 1..Len(rs) : Match(rs[k], rq).matched}

C7_Original_OnlyTheMatchedRoute ==
    \A t \in Threads :
        (pc[t] = "done" /\ Cardinality(MatchingRoutes(routes, req[t])) = 1)
            => LET k == CHOOSE k \in MatchingRoutes(routes, req[t]) : TRUE
               IN  \/ ~header[t].set
                   \/ header[t].val = Join(routes[k].methods, ",")

\* C7 (amended): if exactly one route matches the request and no other route
\* fails on the method alone, the header is unset when that route's methods
\* exclude OPTIONS or its GetMethods fails, and otherwise equals exactly that
\* route's method list joined by commas.
C7_SingleRouteNoMethodMismatch ==
    \A t \in Threads :
        (/\ pc[t] = "done"
         /\ Cardinality(MatchingRoutes(routes, req[t])) = 1
         /\ \A j \in 1..Len(routes) :
                Match(routes[j], req[t]).MatchErr # "ErrMethodMismatch")
            => LET k == CHOOSE k \in MatchingRoutes(routes, req[t]) : TRUE
               IN  IF MethodOptions \in Range(routes[k].methods) /\ ~routes[k].methodsErr
                   THEN header[t] = [set |-> TRUE, val |-> Join(routes[k].methods, ",")]
                   ELSE header[t] = NoHeader

C7_Witness ==
    \E t \in Threads :
        /\ pc[t] = "done"
        /\ Len(routes) = 2
        /\ Match(routes[1], req[t]).MatchErr = "ErrNotFound"
        /\ MethodOptions \in Range(routes[1].methods)
        /\ Match(routes[2], req[t]).matched
        /\ header[t] = [set |-> TRUE, val |-> "OPTIONS,POST"]

\* C8: the middleware reads the route list at request time: each request's
\* outcome is computed over exactly the routes registered before the request,
\* those added after CORSMethodMiddleware(r) was called included.
C8_RoutesReadAtRequestTime ==
    \A t \in Threads :
        pc[t] = "done" =>
            /\ err[t] = SomeGetMethodsFails(SubSeq(routes, 1, startLen[t]), req[t])
            /\ header[t] = HeaderAlone(SubSeq(routes, 1, startLen[t]), req[t])
            /\ ~err[t] => allMethods[t] = ConcatMethods(SubSeq(routes, 1, startLen[t]), req[t])

C8_Witness ==
    \E t \in Threads :
        /\ pc[t] = "done"
        /\ routesAtConstruct = 0
        /\ startLen[t] = 2
        /\ header[t].set
        /\ Contributes(routes[1], req[t]) /\ Contributes(routes[2], req[t])

\* C9: serving a request leaves the route list and the chains unchanged, and
\* under any interleaving of requests each finished request has the header it
\* would get if served alone.
RequestStep == \E t \in Threads : <<pc[t], idx[t]>> # <<pc'[t], idx'[t]>>

C9_RequestsLeaveRouterUnchanged ==
    [][RequestStep =>
          /\ routes' = routes
          /\ middlewares' = middlewares
          /\ \A t \in Threads :
                 pc'[t] = "done" => header'[t] = HeaderAlone(routes, req'[t])]_vars

C9_Witness ==
    /\ pc["t1"] = "done" /\ header["t1"].set
    /\ pc["t2"] = "scan" /\ idx["t2"] = 2
    /\ req["t1"] # req["t2"]

====
